---- MODULE Spec2Model ----
(***************************************************************************)
(* Generative-media orchestration and asset persistence pipeline of the    *)
(* python-ai-engine service: backend selection, the variation loop of      *)
(* VideoGenerationService.generate, download_and_store_video of the        *)
(* storage back ends, storage path generation, and the prompt              *)
(* quantification / regeneration of PromptRegenerator.                     *)
(*                                                                         *)
(* Text is modelled as sequences of one-character strings so that          *)
(* concatenation, zero padding and substring tests are computed.           *)
(* Optional[T] is modelled as a sequence: None is <<>>, a value x is <<x>>.*)
(***************************************************************************)
EXTENDS Integers, Sequences, FiniteSets, TLC

VARIABLES
    adapterImpl,    \* what stands behind BaseVideoProvider.generate in the registry
    bucket,         \* FirebaseVideoStorage.bucket is set (TRUE) or None (FALSE)
    clock,          \* datetime.utcnow(), in seconds
    store,          \* objects of the durable store
    pc,             \* position of the generate() coroutine
    model,          \* argument of generate()
    prompt,         \* argument of generate()
    tenant_name,    \* argument of generate()
    creative_id,    \* argument of generate()
    variations,     \* argument of generate()
    provider,       \* local of generate(): the selected adapter
    i,              \* loop variable of generate()
    res,            \* local of generate(): the current GenerationResult
    results,        \* local of generate(): List[GenerationResult]
    dl,             \* locals of download_and_store_video
    response,       \* the value generate() returns
    attempted,      \* log: what provider.generate and the storage call returned, per iteration
    ncalls,         \* number of direct download_and_store_video calls made
    sel,            \* _select_provider calls: <<argument, outcome>> of the last two
    paths,          \* storage paths handed out by the path generators
    ps,             \* state of the PromptRegenerator calls
    op,             \* the last call of a storage operation and what it returned
    mock,           \* MockProvider.generate calls: <<seed argument, result>> of the last two
    delivery,       \* the value CreativeService._generate_video returns
    tenant_db,      \* MultiTenantDBRouter._local.tenant_db of the handling thread
    request         \* the request TenantMiddleware is handling, and what it was routed to

vars == <<adapterImpl, bucket, clock, store, pc, model, prompt, tenant_name,
          creative_id, variations, provider, i, res, results, dl, response,
          attempted, ncalls, sel, paths, ps, op, mock, delivery, tenant_db,
          request>>

genVars == <<adapterImpl, bucket, clock, store, pc, model, prompt, tenant_name,
             creative_id, variations, provider, i, res, results, dl, response,
             attempted, ncalls>>

webVars == <<mock, delivery, tenant_db, request>>

----------------------------------------------------------------------------
(* Bounds *)

MaxVariations == 2
MaxSeed == 2
MaxClock == 1
MaxStoreCalls == 2

----------------------------------------------------------------------------
(* Optional values and text *)

None == <<>>

Some(x) == <<x>>

\* Python truthiness of an Optional[int]: None and 0 are falsy
TruthyInt(o) == o # None /\ o[1] # 0

\* Python truthiness of an Optional[str]: None and "" are falsy
TruthyStr(o) == o # None /\ o[1] # <<>>

Digit(d) == CASE d = 0 -> "0" [] d = 1 -> "1" [] d = 2 -> "2" [] d = 3 -> "3"
              [] d = 4 -> "4" [] d = 5 -> "5" [] d = 6 -> "6" [] d = 7 -> "7"
              [] d = 8 -> "8" [] d = 9 -> "9"

RECURSIVE NatToStr(_)
NatToStr(n) == IF n < 10 THEN <<Digit(n)>>
               ELSE NatToStr(n \div 10) \o <<Digit(n % 10)>>

\* str(n) / f"{n}" of an int
IntToStr(n) == IF n < 0 THEN <<"-">> \o NatToStr(0 - n) ELSE NatToStr(n)

RECURSIVE ZeroPad(_, _)
ZeroPad(s, width) == IF Len(s) >= width THEN s ELSE ZeroPad(<<"0">> \o s, width)

\* f"{n:03d}": sign first, zero padded to a total width of 3, never truncated
Format03d(n) == IF n < 0 THEN <<"-">> \o ZeroPad(NatToStr(0 - n), 2)
                ELSE ZeroPad(NatToStr(n), 3)

\* Python `needle in text` for str
Contains(text, needle) ==
    \E k \in 1..(Len(text) - Len(needle) + 1) :
        SubSeq(text, k, k + Len(needle) - 1) = needle

\* str.lower() on one character
LowerChar(c) ==
    CASE c = "A" -> "a"
      [] c = "B" -> "b"
      [] c = "C" -> "c"
      [] c = "D" -> "d"
      [] c = "E" -> "e"
      [] c = "F" -> "f"
      [] c = "G" -> "g"
      [] c = "H" -> "h"
      [] c = "I" -> "i"
      [] c = "J" -> "j"
      [] c = "K" -> "k"
      [] c = "L" -> "l"
      [] c = "M" -> "m"
      [] c = "N" -> "n"
      [] c = "O" -> "o"
      [] c = "P" -> "p"
      [] c = "Q" -> "q"
      [] c = "R" -> "r"
      [] c = "S" -> "s"
      [] c = "T" -> "t"
      [] c = "U" -> "u"
      [] c = "V" -> "v"
      [] c = "W" -> "w"
      [] c = "X" -> "x"
      [] c = "Y" -> "y"
      [] c = "Z" -> "z"
      [] OTHER -> c

\* str.lower()
Lower(text) == [k \in 1..Len(text) |-> LowerChar(text[k])]

Mp4Ext == <<".", "m", "p", "4">>
ExampleMarker == <<"e", "x", "a", "m", "p", "l", "e">>
VideoPrefix == <<"v", "i", "d", "e", "o", "s">>
MockUrlPrefix == <<"h", "t", "t", "p", "s", ":", "/", "/", "c", "d", "n", ".", "e", "x", "a", "m", "p", "l", "e", ".", "c", "o", "m", "/", "g", "e", "n", "e", "r", "a", "t", "e", "d", "/", "v", "i", "d", "e", "o", "s", "/">>
RunwayUrlPrefix == <<"h", "t", "t", "p", "s", ":", "/", "/", "r", "u", "n", "w", "a", "y", "-", "p", "u", "b", "l", "i", "c", ".", "e", "x", "a", "m", "p", "l", "e", "/">>
PikaUrlPrefix == <<"h", "t", "t", "p", "s", ":", "/", "/", "p", "i", "k", "a", "-", "p", "u", "b", "l", "i", "c", ".", "e", "x", "a", "m", "p", "l", "e", "/">>
StabilityUrlPrefix == <<"h", "t", "t", "p", "s", ":", "/", "/", "s", "t", "a", "b", "i", "l", "i", "t", "y", "-", "p", "u", "b", "l", "i", "c", ".", "e", "x", "a", "m", "p", "l", "e", "/">>
LumaUrlPrefix == <<"h", "t", "t", "p", "s", ":", "/", "/", "l", "u", "m", "a", "-", "p", "u", "b", "l", "i", "c", ".", "e", "x", "a", "m", "p", "l", "e", "/">>
VeoUrlPrefix == <<"h", "t", "t", "p", "s", ":", "/", "/", "g", "o", "o", "g", "l", "e", "-", "v", "e", "o", "-", "p", "u", "b", "l", "i", "c", ".", "e", "x", "a", "m", "p", "l", "e", "/">>
OpenAIUrlPrefix == <<"h", "t", "t", "p", "s", ":", "/", "/", "o", "p", "e", "n", "a", "i", "-", "s", "h", "o", "r", "t", "s", "-", "p", "u", "b", "l", "i", "c", ".", "e", "x", "a", "m", "p", "l", "e", "/">>

VendorUrl == <<"h", "t", "t", "p", "s", ":", "/", "/", "v", ".", "i", "o", "/", "a", ".", "m", "p", "4">>

\* texts of prompt_service.py and of the VideoPrompt defaults
TxtAd == <<"a", "d">>
Txt16x9 == <<"1", "6", ":", "9">>
Txt9x16 == <<"9", ":", "1", "6">>
Txt1080p == <<"1", "0", "8", "0", "p">>
Txt720p == <<"7", "2", "0", "p">>
TxtCinematic == <<"c", "i", "n", "e", "m", "a", "t", "i", "c">>
TxtUplifting == <<"u", "p", "l", "i", "f", "t", "i", "n", "g">>
TxtDollyIn == <<"s", "m", "o", "o", "t", "h", " ", "d", "o", "l", "l", "y", "-", "i", "n">>
TxtDynamicSocialFirst == <<"d", "y", "n", "a", "m", "i", "c", " ", "s", "o", "c", "i", "a", "l", "-", "f", "i", "r", "s", "t">>
TxtHandheldEnergy == <<"h", "a", "n", "d", "h", "e", "l", "d", " ", "e", "n", "e", "r", "g", "y">>
TxtEnergetic == <<"e", "n", "e", "r", "g", "e", "t", "i", "c">>
TxtSocialFirst == <<"s", "o", "c", "i", "a", "l", "-", "f", "i", "r", "s", "t">>
TxtTiktok == <<"t", "i", "k", "t", "o", "k">>
TxtEnergy == <<"e", "n", "e", "r", "g", "y">>
TxtSocial == <<"s", "o", "c", "i", "a", "l">>
TxtPyNone == <<"N", "o", "n", "e">>
TxtPyTrue == <<"T", "r", "u", "e">>
TxtPyFalse == <<"F", "a", "l", "s", "e">>

----------------------------------------------------------------------------
(* VideoModel, VideoPrompt, GenerationResult *)

\* the values of enum VideoModel, in declaration order
SupportedModels == <<"runway_gen3", "pika_v2", "stability_svd", "luma_dream",
                     "google_veo", "openai_shorts">>

VideoModelValues == {SupportedModels[k] : k \in 1..Len(SupportedModels)}

\* dataclass VideoPrompt with its field defaults
VideoPrompt(text) ==
    [prompt |-> text, duration_seconds |-> 10, aspect_ratio |-> Txt16x9,
     resolution |-> Txt1080p, fps |-> 24, style |-> TxtCinematic,
     mood |-> TxtUplifting, camera |-> TxtDollyIn, color_palette |-> None,
     music |-> None, voiceover_script |-> None, text_overlays |-> None,
     subtitles |-> FALSE, brand_colors |-> None, seed |-> None]

\* VideoGenerationService.providers: VideoModel -> adapter (by its name attribute)
Providers ==
    [vm \in VideoModelValues |->
        CASE vm = "runway_gen3" -> "runway"
          [] vm = "pika_v2" -> "pika"
          [] vm = "stability_svd" -> "stability"
          [] vm = "luma_dream" -> "luma"
          [] vm = "google_veo" -> "google_veo"
          [] vm = "openai_shorts" -> "openai"]

\* VideoModel(model): the member whose value is model, or ValueError (None here)
VideoModelLookup(m) ==
    IF m # None /\ m[1] \in VideoModelValues THEN Some(m[1]) ELSE None

\* _select_provider without its try/except: the ValueError escapes
SelectProviderNoCatch(m) ==
    LET vm == VideoModelLookup(m)
    IN  IF vm = None
        THEN [raised |-> TRUE, provider |-> None]
        ELSE [raised |-> FALSE, provider |-> Some(Providers[vm[1]])]

\* VideoGenerationService._select_provider
SelectProvider(m) ==
    LET vm == VideoModelLookup(m)
    IN  IF vm = None
        THEN [raised |-> FALSE, provider |-> Some(Providers["google_veo"])]
        ELSE [raised |-> FALSE, provider |-> Some(Providers[vm[1]])]

\* per adapter: job id prefix, URL prefix, model echoed, message
AdapterTable ==
    [a \in {Providers[vm] : vm \in VideoModelValues} |->
        CASE a = "runway" -> [job |-> <<"r","u","n","w","a","y","_">>, url |-> RunwayUrlPrefix,
                              model |-> "runway_gen3", message |-> "Runway request accepted"]
          [] a = "pika" -> [job |-> <<"p","i","k","a","_">>, url |-> PikaUrlPrefix,
                            model |-> "pika_v2", message |-> "Pika request accepted"]
          [] a = "stability" -> [job |-> <<"s","v","d","_">>, url |-> StabilityUrlPrefix,
                                 model |-> "stability_svd", message |-> "Stability request accepted"]
          [] a = "luma" -> [job |-> <<"l","u","m","a","_">>, url |-> LumaUrlPrefix,
                            model |-> "luma_dream", message |-> "Luma request accepted"]
          [] a = "google_veo" -> [job |-> <<"v","e","o","_">>, url |-> VeoUrlPrefix,
                                  model |-> "google_veo", message |-> "Google Veo request accepted"]
          [] a = "openai" -> [job |-> <<"o","a","i","_">>, url |-> OpenAIUrlPrefix,
                              model |-> "openai_shorts", message |-> "OpenAI request accepted"]]

\* the adapter returns a locator on a host of the vendor
PlaceholderGenerateVendorHost(a, p, r) ==
    LET seed == IF TruthyInt(p.seed) THEN p.seed[1] ELSE r
        job_id == AdapterTable[a].job \o IntToStr(seed)
    IN  [success |-> TRUE,
         content_url |-> Some(VendorUrl),
         firebase_url |-> None,
         job_id |-> Some(job_id),
         model |-> AdapterTable[a].model,
         provider |-> a,
         params |-> p,
         message |-> AdapterTable[a].message]

\* generate() of the six registered adapters as written: a locator fabricated
\* from the seed; r is the adapter's own random.randint draw
PlaceholderGenerate(a, p, r) ==
    LET seed == IF TruthyInt(p.seed) THEN p.seed[1] ELSE r
        job_id == AdapterTable[a].job \o IntToStr(seed)
    IN  [success |-> TRUE,
         content_url |-> Some(AdapterTable[a].url \o job_id \o Mp4Ext),
         firebase_url |-> None,
         job_id |-> Some(job_id),
         model |-> AdapterTable[a].model,
         provider |-> a,
         params |-> p,
         message |-> AdapterTable[a].message]

\* what an adapter behind the BaseVideoProvider.generate contract can do once
\* the vendor call is integrated: return a successful GenerationResult, return
\* a failed one, or raise
VendorOutcomes == {"ok", "failed", "raise"}

VendorGenerate(a, p, out) ==
    [success |-> out = "ok",
     content_url |-> IF out = "ok" THEN Some(VendorUrl) ELSE None,
     firebase_url |-> None,
     job_id |-> IF out = "ok" THEN Some(<<"j">>) ELSE None,
     model |-> AdapterTable[a].model,
     provider |-> a,
     params |-> p,
     message |-> IF out = "ok" THEN "accepted" ELSE "rejected"]

\* MockProvider.generate: a deterministic mock URL using the seed; r is the
\* random.randint draw taken when `prompt.seed or ...` finds the seed falsy
MockGenerate(p, r) ==
    LET seed == IF TruthyInt(p.seed) THEN p.seed[1] ELSE r
        vid_id == <<"m", "o", "c", "k", "_">> \o IntToStr(seed)
    IN  [success |-> TRUE,
         content_url |-> Some(MockUrlPrefix \o vid_id \o Mp4Ext),
         firebase_url |-> None,
         job_id |-> Some(vid_id),
         model |-> "mock",
         provider |-> "mock",
         params |-> [duration |-> p.duration_seconds,
                     aspect_ratio |-> p.aspect_ratio,
                     resolution |-> p.resolution,
                     fps |-> p.fps,
                     style |-> p.style],
         message |-> "Mock generation complete"]

----------------------------------------------------------------------------
(* Storage paths *)

\* datetime.utcnow().strftime("%Y%m%d_%H%M%S"), now in seconds since
\* 2026-01-01 00:00:00 and within that day
Timestamp(now) ==
    <<"2", "0", "2", "6", "0", "1", "0", "1", "_">>
        \o ZeroPad(NatToStr((now \div 3600) % 24), 2)
        \o ZeroPad(NatToStr((now \div 60) % 60), 2)
        \o ZeroPad(NatToStr(now % 60), 2)

\* the tenant segment is left out of the path
GenerateFirebasePathNoTenant(tenant, creative, iteration, now) ==
    LET filename == Timestamp(now) \o <<"-">> \o creative \o <<"-">>
                        \o Format03d(iteration) \o Mp4Ext
    IN  VideoPrefix \o <<"/">> \o filename

\* FirebaseVideoStorage._generate_firebase_path
GenerateFirebasePath(tenant, creative, iteration, now) ==
    LET filename == Timestamp(now) \o <<"-">> \o creative \o <<"-">>
                        \o Format03d(iteration) \o Mp4Ext
    IN  VideoPrefix \o <<"/">> \o tenant \o <<"/">> \o filename

\* S3VideoStorage._generate_s3_key
GenerateS3Key(tenant, creative, iteration, now) ==
    LET filename == Timestamp(now) \o <<"-">> \o creative \o <<"-">>
                        \o Format03d(iteration) \o Mp4Ext
    IN  VideoPrefix \o <<"/">> \o tenant \o <<"/">> \o filename

----------------------------------------------------------------------------
(* PromptRegenerator: JSON values and the conversions applied to them *)

MaxRecursion == 3

\* JSON values as json.loads returns them: [t |-> type, v |-> payload]
JNull == [t |-> "null", v |-> <<>>]
JStr(x) == [t |-> "str", v |-> x]
JInt(n) == [t |-> "int", v |-> n]
JBool(b) == [t |-> "bool", v |-> b]
JList(xs) == [t |-> "list", v |-> xs]
JObject(f) == [t |-> "object", v |-> f]

\* json.dumps of an Optional field: None becomes null
JOpt(o, type) == IF o = None THEN JNull ELSE [t |-> type, v |-> o[1]]

\* json.dumps(prior_prompt.__dict__): every field of the dataclass, seed included
ToJson(p) ==
    JObject([prompt |-> JStr(p.prompt),
             duration_seconds |-> JInt(p.duration_seconds),
             aspect_ratio |-> JStr(p.aspect_ratio),
             resolution |-> JStr(p.resolution),
             fps |-> JInt(p.fps),
             style |-> JStr(p.style),
             mood |-> JStr(p.mood),
             camera |-> JStr(p.camera),
             color_palette |-> JOpt(p.color_palette, "str"),
             music |-> JOpt(p.music, "str"),
             voiceover_script |-> JOpt(p.voiceover_script, "str"),
             text_overlays |-> JOpt(p.text_overlays, "list"),
             subtitles |-> JBool(p.subtitles),
             brand_colors |-> JOpt(p.brand_colors, "list"),
             seed |-> JOpt(p.seed, "int")])

Ok(x) == [ok |-> TRUE, v |-> x, error |-> "none"]
Err(e) == [ok |-> FALSE, v |-> <<>>, error |-> e]

IsDigitChar(c) == c \in {"0", "1", "2", "3", "4", "5", "6", "7", "8", "9"}

DigitValue(c) == CHOOSE d \in 0..9 : Digit(d) = c

RECURSIVE DigitsToNat(_)
DigitsToNat(ds) == IF Len(ds) = 0 THEN 0
                   ELSE 10 * DigitsToNat(SubSeq(ds, 1, Len(ds) - 1))
                            + DigitValue(ds[Len(ds)])

\* int(x) of a str: an optional sign and decimal digits, else ValueError
StrToInt(text) ==
    LET signed == Len(text) > 0 /\ text[1] \in {"-", "+"}
        ds == IF signed THEN Tail(text) ELSE text
    IN  IF Len(ds) > 0 /\ \A k \in 1..Len(ds) : IsDigitChar(ds[k])
        THEN Ok(IF signed /\ text[1] = "-" THEN 0 - DigitsToNat(ds)
                ELSE DigitsToNat(ds))
        ELSE Err("ValueError")

\* int(x) of a parsed JSON value
PyInt(j) ==
    CASE j.t = "int" -> Ok(j.v)
      [] j.t = "bool" -> Ok(IF j.v THEN 1 ELSE 0)
      [] j.t = "str" -> StrToInt(j.v)
      [] OTHER -> Err("TypeError")

\* str(x) of a parsed JSON value (scalars)
PyStr(j) ==
    CASE j.t = "str" -> j.v
      [] j.t = "int" -> IntToStr(j.v)
      [] j.t = "bool" -> IF j.v THEN TxtPyTrue ELSE TxtPyFalse
      [] j.t = "null" -> TxtPyNone

\* bool(x) of a parsed JSON value
PyBool(j) ==
    CASE j.t = "null" -> FALSE
      [] j.t = "bool" -> j.v
      [] j.t = "int" -> j.v # 0
      [] OTHER -> j.v # <<>>

\* a parsed JSON value stored unconverted into an Optional field
PyOpt(j) == IF j.t = "null" THEN None ELSE Some(j.v)

Has(data, key) == key \in DOMAIN data

\* int(data.get(key, dflt))
GetInt(data, key, dflt) == IF Has(data, key) THEN PyInt(data[key]) ELSE Ok(dflt)

\* str(data.get(key, dflt))
GetStr(data, key, dflt) == IF Has(data, key) THEN PyStr(data[key]) ELSE dflt

\* bool(data.get(key, dflt))
GetBool(data, key, dflt) == IF Has(data, key) THEN PyBool(data[key]) ELSE dflt

\* data.get(key, dflt) into an Optional field
GetOpt(data, key, dflt) == IF Has(data, key) THEN PyOpt(data[key]) ELSE dflt

\* data.get("prompt", dflt)
GetPrompt(data, dflt) == IF Has(data, "prompt") THEN data["prompt"].v ELSE dflt

\* the VideoPrompt(...) built from the parsed response and the per-field
\* fall-backs in d; seed is not passed and takes the dataclass default
BuildPrompt(data, d) ==
    LET duration == GetInt(data, "duration_seconds", d.duration_seconds)
        fps == GetInt(data, "fps", d.fps)
    IN  IF ~duration.ok THEN Err(duration.error)
        ELSE IF ~fps.ok THEN Err(fps.error)
        ELSE Ok([prompt |-> GetPrompt(data, d.prompt),
                 duration_seconds |-> duration.v,
                 aspect_ratio |-> GetStr(data, "aspect_ratio", d.aspect_ratio),
                 resolution |-> GetStr(data, "resolution", d.resolution),
                 fps |-> fps.v,
                 style |-> GetStr(data, "style", d.style),
                 mood |-> GetStr(data, "mood", d.mood),
                 camera |-> GetStr(data, "camera", d.camera),
                 color_palette |-> GetOpt(data, "color_palette", d.color_palette),
                 music |-> GetOpt(data, "music", d.music),
                 voiceover_script |-> GetOpt(data, "voiceover_script", d.voiceover_script),
                 text_overlays |-> GetOpt(data, "text_overlays", d.text_overlays),
                 subtitles |-> GetBool(data, "subtitles", d.subtitles),
                 brand_colors |-> GetOpt(data, "brand_colors", d.brand_colors),
                 seed |-> None])

\* quantify, after json.loads succeeded: data.get on a non-dict raises
\* AttributeError; the fall-backs are the literals of the call
QuantifyFromJson(j, user_prompt) ==
    IF j.t # "object" THEN Err("AttributeError")
    ELSE BuildPrompt(j.v, VideoPrompt(user_prompt))

\* regenerate_with_feedback, after json.loads succeeded: the fall-backs are
\* the fields of prior_prompt
RegenerateFromJson(j, prior) ==
    IF j.t # "object" THEN Err("AttributeError")
    ELSE BuildPrompt(j.v, prior)

\* quantify without a model: the heuristic VideoPrompt
Heuristic(user_prompt, context) ==
    LET tiktok == Contains(Lower(context), TxtTiktok)
    IN  [VideoPrompt(user_prompt) EXCEPT
            !.duration_seconds = 10,
            !.aspect_ratio = IF tiktok THEN Txt9x16 ELSE Txt16x9,
            !.resolution = Txt1080p,
            !.fps = 24,
            !.style = IF tiktok THEN TxtDynamicSocialFirst ELSE TxtCinematic,
            !.mood = TxtUplifting,
            !.camera = IF tiktok THEN TxtHandheldEnergy ELSE TxtDollyIn,
            !.subtitles = TRUE]

\* the prior spec is rebuilt field by field and the seed is not passed on
HeuristicRegenerateDropSeed(prior, feedback) ==
    [prior EXCEPT
        !.mood = IF Contains(Lower(feedback), TxtEnergy) THEN TxtEnergetic ELSE @,
        !.style = IF Contains(Lower(feedback), TxtSocial) THEN TxtSocialFirst ELSE @,
        !.seed = None]

\* regenerate_with_feedback without a model: mood and style by keyword
HeuristicRegenerate(prior, feedback) ==
    [prior EXCEPT
        !.mood = IF Contains(Lower(feedback), TxtEnergy) THEN TxtEnergetic ELSE @,
        !.style = IF Contains(Lower(feedback), TxtSocial) THEN TxtSocialFirst ELSE @]

----------------------------------------------------------------------------
(* PromptRegenerator.quantify and regenerate_with_feedback *)

\* state of the PromptRegenerator and of the call in progress
NoPs == [pc |-> "idle", op |-> "none", llm |-> FALSE, user_prompt |-> <<>>,
         context |-> <<>>, prior |-> None, feedback |-> <<>>, depth |-> 0,
         llm_calls |-> 0, response |-> None, parse_failed |-> FALSE,
         result |-> None, error |-> "none"]

UserPromptArgs == <<TxtAd, <<>>>>
ContextArgs == <<<<"T", "i", "k", "T", "o", "k">>, <<"w", "e", "b">>>>
FeedbackArgs == <<<<"m", "o", "r", "e", " ", "E", "n", "e", "r", "g", "y">>,
                  <<"s", "o", "c", "i", "a", "l">>, <<"o", "k">>>>

RichPrompt ==
    [prompt |-> TxtAd, duration_seconds |-> 15, aspect_ratio |-> Txt9x16,
     resolution |-> Txt720p, fps |-> 30, style |-> TxtSocialFirst,
     mood |-> TxtUplifting, camera |-> TxtHandheldEnergy,
     color_palette |-> Some(<<"w", "a", "r", "m">>),
     music |-> Some(<<"p", "o", "p">>),
     voiceover_script |-> Some(<<"h", "i">>),
     text_overlays |-> Some(<<<<"B", "u", "y">>>>),
     subtitles |-> TRUE,
     brand_colors |-> Some(<<<<"#", "f", "f", "f">>>>),
     seed |-> Some(42)]

PriorArgs == <<VideoPrompt(TxtAd), [VideoPrompt(TxtAd) EXCEPT !.seed = Some(7)],
               [VideoPrompt(TxtAd) EXCEPT !.seed = Some(0)], RichPrompt>>

NonJson == [kind |-> "text", value |-> JNull]
Json(j) == [kind |-> "json", value |-> j]

\* what the model can answer to the quantify prompt
QuantifyResponses ==
    <<NonJson,
      Json(JList(<<>>)),
      Json(JObject(<<>>)),
      Json(JObject([duration_seconds |-> JStr(<<"t", "e", "n">>)])),
      Json(JObject([duration_seconds |-> JStr(<<"1", "5">>)])),
      Json(JObject([duration_seconds |-> JInt(600), fps |-> JInt(30)])),
      Json(JObject([fps |-> JNull])),
      Json(ToJson(RichPrompt))>>

\* what the model can answer to the refine prompt
RegenerateResponses(prior) ==
    <<NonJson,
      Json(JList(<<>>)),
      Json(JObject(<<>>)),
      Json(JObject([mood |-> JStr(TxtEnergetic)])),
      Json(ToJson(prior)),
      Json(JObject([duration_seconds |-> JStr(<<"t", "e", "n">>)])),
      Json(JObject([duration_seconds |-> JInt(600)]))>>

\* quantify(user_prompt, campaign_context, ...) up to `await chain.arun(...)`;
\* context is str(campaign_context)
QuantifyCall(up, ctx) ==
    /\ ps.pc = "idle"
    /\ ps' = IF ~ps.llm
             THEN [ps EXCEPT !.pc = "done", !.op = "quantify", !.user_prompt = up,
                             !.context = ctx, !.result = Some(Heuristic(up, ctx))]
             ELSE [ps EXCEPT !.pc = "await_llm", !.op = "quantify",
                             !.user_prompt = up, !.context = ctx, !.depth = 1,
                             !.llm_calls = 1]
    /\ UNCHANGED <<genVars, sel, paths, op, webVars>>

\* quantify after chain.arun returned resp: json.loads; on failure the
\* recursive `return await self.quantify(...)`, which finds self.llm set and
\* awaits the model again, until the interpreter's recursion limit
QuantifyResume(resp) ==
    /\ ps.pc = "await_llm"
    /\ ps.op = "quantify"
    /\ ps' = IF resp.kind # "json"
             THEN IF ps.depth >= MaxRecursion
                  THEN [ps EXCEPT !.pc = "raised", !.response = Some(resp),
                                  !.parse_failed = TRUE, !.error = "RecursionError"]
                  ELSE [ps EXCEPT !.response = Some(resp), !.parse_failed = TRUE,
                                  !.depth = @ + 1, !.llm_calls = @ + 1]
             ELSE LET built == QuantifyFromJson(resp.value, ps.user_prompt)
                  IN  IF built.ok
                      THEN [ps EXCEPT !.pc = "done", !.response = Some(resp),
                                      !.result = Some(built.v)]
                      ELSE [ps EXCEPT !.pc = "raised", !.response = Some(resp),
                                      !.error = built.error]
    /\ UNCHANGED <<genVars, sel, paths, op, webVars>>

\* regenerate_with_feedback(prior_prompt, feedback) up to `await chain.arun(...)`
RegenerateStart(prior, fb) ==
    ps' = IF ~ps.llm
          THEN [ps EXCEPT !.pc = "done", !.op = "regenerate", !.prior = Some(prior),
                          !.feedback = fb, !.response = None,
                          !.result = Some(HeuristicRegenerate(prior, fb))]
          ELSE [ps EXCEPT !.pc = "await_llm", !.op = "regenerate",
                          !.prior = Some(prior), !.feedback = fb, !.response = None,
                          !.result = None, !.llm_calls = @ + 1]

\* a caller regenerates a spec it holds
RegenerateCall(prior, fb) ==
    /\ ps.pc = "idle"
    /\ RegenerateStart(prior, fb)
    /\ UNCHANGED <<genVars, sel, paths, op, webVars>>

\* CreativeService._generate_video: the quantified spec is regenerated
RegenerateQuantified(fb) ==
    /\ ps.pc = "done"
    /\ ps.op = "quantify"
    /\ RegenerateStart(ps.result[1], fb)
    /\ UNCHANGED <<genVars, sel, paths, op, webVars>>

\* regenerate_with_feedback after chain.arun returned resp
RegenerateResume(resp) ==
    /\ ps.pc = "await_llm"
    /\ ps.op = "regenerate"
    /\ ps' = IF resp.kind # "json"
             THEN [ps EXCEPT !.pc = "done", !.response = Some(resp),
                             !.parse_failed = TRUE, !.result = ps.prior]
             ELSE LET built == RegenerateFromJson(resp.value, ps.prior[1])
                  IN  IF built.ok
                      THEN [ps EXCEPT !.pc = "done", !.response = Some(resp),
                                      !.result = Some(built.v)]
                      ELSE [ps EXCEPT !.pc = "raised", !.response = Some(resp),
                                      !.error = built.error]
    /\ UNCHANGED <<genVars, sel, paths, op, webVars>>

\* chain.arun returns one of the answers to the refine prompt
RegenerateReturn ==
    /\ ps.prior # None
    /\ \E r \in 1..Len(RegenerateResponses(ps.prior[1])) :
          RegenerateResume(RegenerateResponses(ps.prior[1])[r])

----------------------------------------------------------------------------
(* download_and_store_video of FirebaseVideoStorage and S3VideoStorage *)

\* locals of download_and_store_video; caller is "generate" or "direct";
\* make_public and signing are the outcomes of blob.make_public() and of
\* blob.generate_signed_url()
NoDl == [backend |-> "firebase", caller |-> "direct", url |-> None,
         tenant |-> <<>>, creative |-> <<>>, iteration |-> 0,
         path |-> None, size |-> 0, download |-> "none",
         make_public |-> "none", signing |-> "none", ret |-> None]

\* only successful results are appended
RecordDropFailed(r) ==
    /\ results' = IF r.success THEN Append(results, r) ELSE results
    /\ i' = i + 1
    /\ pc' = "loop"

\* results.append(res) and the step to the next iteration
Record(r) ==
    /\ results' = Append(results, r)
    /\ i' = i + 1
    /\ pc' = "loop"

\* a None from the storage call also marks the attempt as failed
StoreReturnFailsAttempt(u, d) ==
    /\ dl' = [d EXCEPT !.ret = u]
    /\ IF d.caller = "generate"
       THEN /\ res' = Some([res[1] EXCEPT !.firebase_url = u,
                                          !.success = (u # None)])
            /\ Record(res'[1])
            /\ attempted' = [attempted EXCEPT ![Len(attempted)].store_called = TRUE,
                                              ![Len(attempted)].persisted = u]
       ELSE /\ pc' = "stored"
            /\ UNCHANGED <<res, results, i, attempted>>

\* download_and_store_video returns u; in generate(): res.firebase_url = u
\* and results.append(res)
StoreReturn(u, d) ==
    /\ dl' = [d EXCEPT !.ret = u]
    /\ IF d.caller = "generate"
       THEN /\ res' = Some([res[1] EXCEPT !.firebase_url = u])
            /\ Record(res'[1])
            /\ attempted' = [attempted EXCEPT ![Len(attempted)].store_called = TRUE,
                                              ![Len(attempted)].persisted = u]
       ELSE /\ pc' = "stored"
            /\ UNCHANGED <<res, results, i, attempted>>

\* only the empty locator is skipped
IsPlaceholderUrlEmptyOnly(u) == ~TruthyStr(u)

\* `not video_url or "example" in video_url`
IsPlaceholderUrl(u) == ~TruthyStr(u) \/ Contains(u[1], ExampleMarker)

\* the two early returns, the path, the GET is sent
StoreEnter ==
    /\ pc = "store"
    /\ IF ~bucket \/ IsPlaceholderUrl(dl.url)
       THEN StoreReturn(None, dl)
       ELSE /\ dl' = [dl EXCEPT !.path = Some(
                        IF dl.backend = "firebase"
                        THEN GenerateFirebasePath(dl.tenant, dl.creative, dl.iteration, clock)
                        ELSE GenerateS3Key(dl.tenant, dl.creative, dl.iteration, clock))]
            /\ pc' = "download"
            /\ UNCHANGED <<res, results, i, attempted>>
    /\ UNCHANGED <<adapterImpl, bucket, clock, store, model, prompt,
                   tenant_name, creative_id, variations, provider, response,
                   ncalls, sel, paths, ps, op, webVars>>

DownloadOutcomes == {"ok", "empty", "http_status", "transport"}

\* the empty-body check is missing: an empty download is uploaded
DownloadNextNoEmptyCheck(out) ==
    IF out \in {"ok", "empty"}
    THEN /\ dl' = [dl EXCEPT !.download = out, !.size = IF out = "ok" THEN 1 ELSE 0]
         /\ pc' = "upload"
         /\ UNCHANGED <<res, results, i, attempted>>
    ELSE StoreReturn(None, [dl EXCEPT !.download = out])

\* what download_and_store_video does with the outcome of the GET:
\* raise_for_status, the empty check, the except clauses
DownloadNext(out) ==
    IF out = "ok"
    THEN /\ dl' = [dl EXCEPT !.download = out, !.size = 1]
         /\ pc' = "upload"
         /\ UNCHANGED <<res, results, i, attempted>>
    ELSE StoreReturn(None, [dl EXCEPT !.download = out])

\* the response of client.get arrives
Download ==
    /\ pc = "download"
    /\ \E out \in DownloadOutcomes : DownloadNext(out)
    /\ UNCHANGED <<adapterImpl, bucket, clock, store, model, prompt,
                   tenant_name, creative_id, variations, provider, response,
                   ncalls, sel, paths, ps, op, webVars>>

\* the metadata map both back ends attach
Metadata(d, now) ==
    [tenant |-> d.tenant, creative_id |-> d.creative,
     iteration |-> IntToStr(d.iteration), original_url |-> d.url[1],
     uploaded_at |-> now]

\* firebase: blob.upload_from_string(video_data); s3: put_object(Body, Metadata)
\* and the formatted object URL is returned
Upload ==
    /\ pc = "upload"
    /\ \E ok \in BOOLEAN :
        IF ~ok
        THEN /\ StoreReturn(None, dl)
             /\ UNCHANGED store
        ELSE IF dl.backend = "firebase"
        THEN /\ store' = {o \in store : o.path # dl.path[1]} \cup
                           {[path |-> dl.path[1], size |-> dl.size,
                             metadata |-> None, public |-> FALSE]}
             /\ pc' = "patch"
             /\ UNCHANGED <<res, results, i, dl, attempted>>
        ELSE /\ store' = {o \in store : o.path # dl.path[1]} \cup
                           {[path |-> dl.path[1], size |-> dl.size,
                             metadata |-> Some(Metadata(dl, clock)),
                             public |-> FALSE]}
             /\ StoreReturn(Some([kind |-> "s3", path |-> dl.path[1],
                                  expires |-> None]), dl)
    /\ UNCHANGED <<adapterImpl, bucket, clock, model, prompt, tenant_name,
                   creative_id, variations, provider, response, ncalls,
                   sel, paths, ps, op, webVars>>

\* firebase: blob.metadata = {...}; blob.patch()
Patch ==
    /\ pc = "patch"
    /\ \E ok \in BOOLEAN :
        IF ok
        THEN /\ store' = {IF o.path = dl.path[1]
                          THEN [o EXCEPT !.metadata = Some(Metadata(dl, clock))]
                          ELSE o : o \in store}
             /\ pc' = "url"
             /\ UNCHANGED <<res, results, i, dl, attempted>>
        ELSE /\ StoreReturn(None, dl)
             /\ UNCHANGED store
    /\ UNCHANGED <<adapterImpl, bucket, clock, model, prompt, tenant_name,
                   creative_id, variations, provider, response, ncalls,
                   sel, paths, ps, op, webVars>>

\* timedelta(days=365) of the signed URL
SignedUrlDays == 365

\* a refused make_public ends the call with None
UrlNextNoFallback(public, signed) ==
    IF public
    THEN /\ store' = {IF o.path = dl.path[1] THEN [o EXCEPT !.public = TRUE]
                      ELSE o : o \in store}
         /\ StoreReturn(Some([kind |-> "public", path |-> dl.path[1],
                              expires |-> None]),
                        [dl EXCEPT !.make_public = "ok"])
    ELSE /\ UNCHANGED store
         /\ StoreReturn(None, [dl EXCEPT !.make_public = "refused"])

\* firebase: blob.make_public() and blob.public_url, else
\* blob.generate_signed_url(expiration = now + 365 days); an exception of the
\* latter is caught by the outer handlers
UrlNext(public, signed) ==
    IF public
    THEN /\ store' = {IF o.path = dl.path[1] THEN [o EXCEPT !.public = TRUE]
                      ELSE o : o \in store}
         /\ StoreReturn(Some([kind |-> "public", path |-> dl.path[1],
                              expires |-> None]),
                        [dl EXCEPT !.make_public = "ok"])
    ELSE /\ UNCHANGED store
         /\ IF signed
            THEN StoreReturn(Some([kind |-> "signed", path |-> dl.path[1],
                                   expires |-> Some(SignedUrlDays)]),
                             [dl EXCEPT !.make_public = "refused",
                                        !.signing = "ok"])
            ELSE StoreReturn(None, [dl EXCEPT !.make_public = "refused",
                                              !.signing = "failed"])

\* the store answers make_public and, if asked, the signing request
MakeUrl ==
    /\ pc = "url"
    /\ \E public \in BOOLEAN, signed \in BOOLEAN : UrlNext(public, signed)
    /\ UNCHANGED <<adapterImpl, bucket, clock, model, prompt, tenant_name,
                   creative_id, variations, provider, response, ncalls,
                   sel, paths, ps, op, webVars>>

\* time passes while a call is in progress
Tick ==
    /\ pc \notin {"idle", "returned", "raised", "stored"}
    /\ clock < MaxClock
    /\ clock' = clock + 1
    /\ UNCHANGED <<adapterImpl, bucket, store, pc, model, prompt, tenant_name,
                   creative_id, variations, provider, i, res, results, dl,
                   response, attempted, ncalls, sel, paths, ps, op, webVars>>

----------------------------------------------------------------------------
(* generate_signed_url / generate_presigned_url, delete_video,             *)
(* list_tenant_videos and get_video_metadata of the storage back ends      *)

\* no storage operation has been called yet
NoOp == [name |-> "none", backend |-> "firebase", arg |-> <<>>,
         outcome |-> "none", raised |-> FALSE, ret |-> "none", value |-> <<>>]

\* how a call to the store ends: it succeeds, it raises the service error of
\* the client library (GoogleCloudError, ClientError), or it raises any other
\* exception (connection refused, timeout, missing credentials)
StoreCallOutcomes == {"ok", "service_error", "transport_error"}

\* str.startswith, as the store matches a listing prefix
StartsWith(text, prefix) ==
    /\ Len(text) >= Len(prefix)
    /\ SubSeq(text, 1, Len(prefix)) = prefix

\* the operation returns a value of the given kind
OpReturn(name, b, arg, out, kind, value) ==
    [name |-> name, backend |-> b, arg |-> arg,
     outcome |-> IF bucket THEN out ELSE "none",
     raised |-> FALSE, ret |-> kind, value |-> value]

\* an exception leaves the operation
OpRaise(name, b, arg, out) ==
    [name |-> name, backend |-> b, arg |-> arg, outcome |-> out,
     raised |-> TRUE, ret |-> "none", value |-> <<>>]

\* metadata.get(key) with metadata = blob.metadata or {}
MetadataGet(o, key) == IF o.metadata = None THEN None ELSE Some(o.metadata[1][key])

\* the dictionary list_tenant_videos and get_video_metadata build for one
\* object; _get_blob_url returns blob.public_url, which every blob has
VideoEntry(b, o) ==
    [path |-> o.path,
     public_url |-> IF b = "firebase"
                    THEN Some([kind |-> "public", path |-> o.path, expires |-> None])
                    ELSE None,
     size |-> o.size,
     creative_id |-> MetadataGet(o, "creative_id"),
     iteration |-> MetadataGet(o, "iteration"),
     original_url |-> MetadataGet(o, "original_url"),
     uploaded_at |-> MetadataGet(o, "uploaded_at")]

\* generate_signed_url(path, expiration) / generate_presigned_url(key, expiration):
\* only the service error is caught
GenerateSignedUrl(b, path, expiration, out) ==
    /\ op' = IF ~bucket
             THEN OpReturn("generate_signed_url", b, path, out, "null", <<>>)
             ELSE CASE out = "ok" ->
                         OpReturn("generate_signed_url", b, path, out, "url",
                                  <<[kind |-> "signed", path |-> path,
                                     expires_seconds |-> expiration]>>)
                    [] out = "service_error" ->
                         OpReturn("generate_signed_url", b, path, out, "null", <<>>)
                    [] out = "transport_error" ->
                         OpRaise("generate_signed_url", b, path, out)
    /\ UNCHANGED <<genVars, sel, paths, ps, webVars>>

\* delete_video(path): blob.delete() raises NotFound, a GoogleCloudError, for
\* a missing blob; delete_object succeeds for a missing key
DeleteVideo(b, path, out) ==
    LET missing == b = "firebase" /\ ~\E o \in store : o.path = path
    IN  /\ op' = IF ~bucket
                 THEN OpReturn("delete_video", b, path, out, "false", <<>>)
                 ELSE CASE out = "ok" ->
                             OpReturn("delete_video", b, path, out,
                                      IF missing THEN "false" ELSE "true", <<>>)
                        [] out = "service_error" ->
                             OpReturn("delete_video", b, path, out, "false", <<>>)
                        [] out = "transport_error" ->
                             OpRaise("delete_video", b, path, out)
        /\ store' = IF bucket /\ out = "ok"
                    THEN {o \in store : o.path # path}
                    ELSE store
        /\ UNCHANGED <<adapterImpl, bucket, clock, pc, model, prompt,
                       tenant_name, creative_id, variations, provider, i, res,
                       results, dl, response, attempted, ncalls, sel, paths, ps,
                       webVars>>

\* list_tenant_videos(tenant) with the default limit, above the number of
\* objects kept here: the listing call, then per object blob.reload() /
\* head_object, whose service error skips the object; the entries are kept as
\* a set
ListTenantVideos(b, tenant, out, reload) ==
    LET prefix == VideoPrefix \o <<"/">> \o tenant \o <<"/">>
        blobs == {o \in store : StartsWith(o.path, prefix)}
    IN  /\ op' = IF ~bucket
                 THEN OpReturn("list_tenant_videos", b, tenant, out, "list", {})
                 ELSE CASE out = "ok" ->
                             IF \E o \in blobs : reload[o.path] = "transport_error"
                             THEN OpRaise("list_tenant_videos", b, tenant, out)
                             ELSE OpReturn("list_tenant_videos", b, tenant, out, "list",
                                           {VideoEntry(b, o) :
                                              o \in {x \in blobs : reload[x.path] = "ok"}})
                        [] out = "service_error" ->
                             OpReturn("list_tenant_videos", b, tenant, out, "list", {})
                        [] out = "transport_error" ->
                             OpRaise("list_tenant_videos", b, tenant, out)
        /\ UNCHANGED <<genVars, sel, paths, ps, webVars>>

\* FirebaseVideoStorage.get_video_metadata(path): blob.reload() raises
\* NotFound, a GoogleCloudError, for a missing blob
GetVideoMetadata(path, out) ==
    LET found == {o \in store : o.path = path}
    IN  /\ op' = IF ~bucket
                 THEN OpReturn("get_video_metadata", "firebase", path, out, "null", <<>>)
                 ELSE CASE out = "ok" ->
                             IF found = {}
                             THEN OpReturn("get_video_metadata", "firebase", path, out,
                                           "null", <<>>)
                             ELSE OpReturn("get_video_metadata", "firebase", path, out,
                                           "metadata",
                                           <<VideoEntry("firebase", CHOOSE o \in found : TRUE)>>)
                        [] out = "service_error" ->
                             OpReturn("get_video_metadata", "firebase", path, out,
                                      "null", <<>>)
                        [] out = "transport_error" ->
                             OpRaise("get_video_metadata", "firebase", path, out)
        /\ UNCHANGED <<genVars, sel, paths, ps, webVars>>

----------------------------------------------------------------------------
(* MockProvider calls, and TenantMiddleware with MultiTenantDBRouter *)

MaxRequests == 3

\* service.mock.generate(p) with p.seed = s; the last two calls are kept
MockCall(s, r) ==
    /\ mock' = (IF Len(mock) < 2 THEN mock ELSE Tail(mock))
                  \o <<[seed |-> s,
                        result |-> MockGenerate([VideoPrompt(TxtAd) EXCEPT !.seed = s], r)]>>
    /\ UNCHANGED <<genVars, sel, paths, ps, op, delivery, tenant_db, request>>

\* no request has reached the middleware yet
\* (earlier: the tenant databases of the requests handled before on the thread)
NoRequest == [pc |-> "idle", tenant |-> None, tenant_db |-> None,
              status |-> 0, headers |-> {}, routed |-> None, handled |-> 0,
              earlier |-> {}]

\* f"tenant_{tenant.slug}_db"
TenantDbName(slug) == <<"t", "e", "n", "a", "n", "t", "_">> \o slug \o <<"_", "d", "b">>

DefaultDb == <<"d", "e", "f", "a", "u", "l", "t">>

\* what get_tenant_from_request can do: return a tenant, return None, or raise
\* (the tenant lookup queries the public database)
TenantResolutions ==
    {[kind |-> "tenant", slug |-> <<"a">>], [kind |-> "tenant", slug |-> <<"b">>],
     [kind |-> "none", slug |-> <<>>], [kind |-> "raise", slug |-> <<>>]}

\* MultiTenantDBRouter.db_for_read / db_for_write of a tenant-specific model
DbForRead == IF TruthyStr(tenant_db) THEN tenant_db[1] ELSE DefaultDb

\* TenantMiddleware.process_request; a returned HttpResponse short-circuits
\* the view (MiddlewareMixin hands it to process_response)
ProcessRequest(resolved, requires_tenant) ==
    /\ request.pc \in {"idle", "done"}
    /\ request.handled < MaxRequests
    /\ LET fresh == [NoRequest EXCEPT
                       !.handled = request.handled + 1,
                       !.earlier = request.earlier \cup
                                   {request.tenant_db[k] : k \in 1..Len(request.tenant_db)}]
       IN  CASE resolved.kind = "tenant" ->
                  /\ tenant_db' = Some(TenantDbName(resolved.slug))
                  /\ request' = [fresh EXCEPT !.pc = "view",
                                              !.tenant = Some(resolved.slug),
                                              !.tenant_db = Some(TenantDbName(resolved.slug))]
             [] resolved.kind = "none" /\ requires_tenant ->
                  /\ request' = [fresh EXCEPT !.pc = "response", !.status = 404]
                  /\ UNCHANGED tenant_db
             [] resolved.kind = "none" /\ ~requires_tenant ->
                  /\ request' = [fresh EXCEPT !.pc = "view"]
                  /\ UNCHANGED tenant_db
             [] resolved.kind = "raise" ->
                  /\ request' = [fresh EXCEPT !.pc = "response", !.status = 500]
                  /\ UNCHANGED tenant_db
    /\ UNCHANGED <<genVars, sel, paths, ps, op, mock, delivery>>

\* the view runs: its tenant-scoped reads and writes go where the router
\* sends them; it returns a response or raises
View(raises) ==
    /\ request.pc = "view"
    /\ request' = [request EXCEPT !.routed = Some(DbForRead),
                                  !.pc = IF raises THEN "exception" ELSE "response",
                                  !.status = IF raises THEN 0 ELSE 200]
    /\ UNCHANGED <<genVars, sel, paths, ps, op, mock, delivery, tenant_db>>

\* TenantMiddleware.process_exception: clears the context and returns None,
\* so the exception is turned into the 500 response
ProcessException ==
    /\ request.pc = "exception"
    /\ tenant_db' = None
    /\ request' = [request EXCEPT !.pc = "response", !.status = 500]
    /\ UNCHANGED <<genVars, sel, paths, ps, op, mock, delivery>>

\* process_response that leaves the context as it is
ProcessResponseNoClear ==
    /\ request.pc = "response"
    /\ request' = [request EXCEPT !.pc = "done",
                                  !.headers = IF TruthyStr(request.tenant)
                                              THEN {"X-Tenant-ID", "X-Tenant-Slug"}
                                              ELSE {}]
    /\ UNCHANGED tenant_db
    /\ UNCHANGED <<genVars, sel, paths, ps, op, mock, delivery>>

\* TenantMiddleware.process_response: tenant headers, then the context is cleared
ProcessResponse ==
    /\ request.pc = "response"
    /\ request' = [request EXCEPT !.pc = "done",
                                  !.headers = IF TruthyStr(request.tenant)
                                              THEN {"X-Tenant-ID", "X-Tenant-Slug"}
                                              ELSE {}]
    /\ tenant_db' = None
    /\ UNCHANGED <<genVars, sel, paths, ps, op, mock, delivery>>

WebInit ==
    /\ mock = <<>>
    /\ delivery = None
    /\ tenant_db = None
    /\ request = NoRequest

----------------------------------------------------------------------------
(* VideoGenerationService.generate *)

ModelArgs == {Some("runway_gen3"), Some("google_veo"), Some("unknown_model")}
SeedArgs == {None, Some(0), Some(7)}
TenantArgs == {<<"a">>}
CreativeArgs == {<<"c", "1">>}
RandSeeds == 1..MaxSeed

GenInit ==
    /\ adapterImpl \in {"placeholder", "vendor"}
    /\ bucket \in BOOLEAN
    /\ clock = 0
    /\ store = {}
    /\ pc = "idle"
    /\ model = None
    /\ prompt = VideoPrompt(TxtAd)
    /\ tenant_name = <<>>
    /\ creative_id = <<>>
    /\ variations = 0
    /\ provider = None
    /\ i = 0
    /\ res = None
    /\ results = <<>>
    /\ dl = NoDl
    /\ response = None
    /\ attempted = <<>>
    /\ ncalls = 0

\* generate(): entry, provider selection, results = []
GenerateCall(m, s, t, c, n) ==
    /\ pc = "idle"
    /\ model' = m
    /\ prompt' = [VideoPrompt(TxtAd) EXCEPT !.seed = s]
    /\ tenant_name' = t
    /\ creative_id' = c
    /\ variations' = n
    /\ LET chosen == SelectProvider(m)
       IN  /\ provider' = chosen.provider
           /\ pc' = IF chosen.raised THEN "raised" ELSE "loop"
    /\ results' = <<>>
    /\ i' = 0
    /\ UNCHANGED <<adapterImpl, bucket, clock, store, res, dl, response,
                   attempted, ncalls, sel, paths, ps, op, webVars>>

\* the loop variable i is used as the iteration, instead of i + 1
AttemptNextZeroBased(r, raised) ==
    /\ res' = IF raised THEN res ELSE Some(r)
    /\ attempted' = Append(attempted,
                       [iteration |-> i,
                        outcome |-> IF raised THEN "raise"
                                    ELSE IF r.success THEN "ok" ELSE "failed",
                        content_url |-> IF raised THEN None ELSE r.content_url,
                        store_called |-> FALSE,
                        persisted |-> None])
    /\ IF raised
       THEN /\ pc' = "raised"
            /\ UNCHANGED <<results, i, dl>>
       ELSE IF r.success /\ TruthyStr(r.content_url)
       THEN /\ pc' = "store"
            /\ dl' = [NoDl EXCEPT !.caller = "generate", !.url = r.content_url,
                                  !.tenant = tenant_name, !.creative = creative_id,
                                  !.iteration = i]
            /\ UNCHANGED <<results, i>>
       ELSE /\ Record(r)
            /\ UNCHANGED dl

\* generate() after `await provider.generate(p, assets)`: an exception of the
\* adapter leaves the coroutine; a result is stored and/or appended
AttemptNext(r, raised) ==
    /\ res' = IF raised THEN res ELSE Some(r)
    /\ attempted' = Append(attempted,
                       [iteration |-> i + 1,
                        outcome |-> IF raised THEN "raise"
                                    ELSE IF r.success THEN "ok" ELSE "failed",
                        content_url |-> IF raised THEN None ELSE r.content_url,
                        store_called |-> FALSE,
                        persisted |-> None])
    /\ IF raised
       THEN /\ pc' = "raised"
            /\ UNCHANGED <<results, i, dl>>
       ELSE IF r.success /\ TruthyStr(r.content_url)
       THEN /\ pc' = "store"
            /\ dl' = [NoDl EXCEPT !.caller = "generate", !.url = r.content_url,
                                  !.tenant = tenant_name, !.creative = creative_id,
                                  !.iteration = i + 1]
            /\ UNCHANGED <<results, i>>
       ELSE /\ Record(r)
            /\ UNCHANGED dl

\* one iteration of the loop up to the end of `await provider.generate(p, assets)`
Attempt ==
    /\ pc = "loop"
    /\ i < variations
    /\ \E r1 \in RandSeeds, r2 \in RandSeeds, out \in VendorOutcomes :
        LET p == IF prompt.seed = None
                 THEN [prompt EXCEPT !.seed = Some(r1)]
                 ELSE prompt
            r == IF adapterImpl = "placeholder"
                 THEN PlaceholderGenerate(provider[1], p, r2)
                 ELSE VendorGenerate(provider[1], p, out)
        IN  AttemptNext(r, adapterImpl = "vendor" /\ out = "raise")
    /\ UNCHANGED <<adapterImpl, bucket, clock, store, model, prompt,
                   tenant_name, creative_id, variations, provider, response,
                   ncalls, sel, paths, ps, op, webVars>>

\* success is any(...) instead of all(...)
AggregateAny(rs) ==
    [success |-> \E k \in 1..Len(rs) : rs[k].success,
     provider |-> provider[1],
     model |-> model,
     results |-> [k \in 1..Len(rs) |->
                    [content_url |-> rs[k].content_url,
                     firebase_url |-> rs[k].firebase_url,
                     job_id |-> rs[k].job_id,
                     params |-> rs[k].params,
                     message |-> rs[k].message]],
     supported_models |-> SupportedModels]

\* the dict generate() returns
Aggregate(rs) ==
    [success |-> \A k \in 1..Len(rs) : rs[k].success,
     provider |-> provider[1],
     model |-> model,
     results |-> [k \in 1..Len(rs) |->
                    [content_url |-> rs[k].content_url,
                     firebase_url |-> rs[k].firebase_url,
                     job_id |-> rs[k].job_id,
                     params |-> rs[k].params,
                     message |-> rs[k].message]],
     supported_models |-> SupportedModels]

\* the loop is exhausted: return
Return ==
    /\ pc = "loop"
    /\ i >= variations
    /\ response' = Some(Aggregate(results))
    /\ pc' = "returned"
    /\ UNCHANGED <<adapterImpl, bucket, clock, store, model, prompt,
                   tenant_name, creative_id, variations, provider, i, res,
                   results, dl, attempted, ncalls, sel, paths, ps, op, webVars>>

\* dict.get(key, default)
DictGet(d, key, default) == IF key \in DOMAIN d THEN d[key] ELSE default

\* the dict CreativeService._generate_video builds from the dict generate()
\* returned (timestamps and the echoed prompt are left out)
VideoResponse(generation) ==
    [success |-> DictGet(generation, "success", FALSE),
     variations |-> LET items == DictGet(generation, "results", <<>>)
                    IN  [k \in 1..Len(items) |->
                           [variation_id |-> DictGet(items[k], "job_id", None),
                            content_url |-> DictGet(items[k], "content_url", None),
                            s3_url |-> DictGet(items[k], "s3_url", None),
                            content_type |-> "video",
                            is_approved |-> FALSE]],
     metadata |-> [supported_models |-> DictGet(generation, "supported_models", <<>>),
                   selected_model |-> DictGet(generation, "model", None),
                   provider |-> DictGet(generation, "provider", None)]]

\* CreativeService._generate_video after `await self.video_service.generate(...)`
GenerateVideoReturn ==
    /\ pc = "returned"
    /\ delivery' = Some(VideoResponse(response[1]))
    /\ pc' = "delivered"
    /\ UNCHANGED <<adapterImpl, bucket, clock, store, model, prompt,
                   tenant_name, creative_id, variations, provider, i, res,
                   results, dl, response, attempted, ncalls, sel, paths, ps, op,
                   mock, tenant_db, request>>

\* the task running generate() is cancelled while it is suspended in
\* `await client.get(...)` of download_and_store_video: CancelledError is
\* raised there, no handler of the storage call or of generate() catches it
\* (it is not an Exception), and it leaves both coroutines
Cancel ==
    /\ pc = "download"
    /\ dl.caller = "generate"
    /\ pc' = "cancelled"
    /\ UNCHANGED <<adapterImpl, bucket, clock, store, model, prompt,
                   tenant_name, creative_id, variations, provider, i, res,
                   results, dl, response, attempted, ncalls, sel, paths, ps, op,
                   webVars>>

GenNext ==
    \/ \E m \in ModelArgs, s \in SeedArgs, t \in TenantArgs, c \in CreativeArgs,
          n \in 0..MaxVariations : GenerateCall(m, s, t, c, n)
    \/ Attempt
    \/ StoreEnter
    \/ Download
    \/ Cancel
    \/ Upload
    \/ Patch
    \/ MakeUrl
    \/ Return
    \/ GenerateVideoReturn
    \/ Tick

Init ==
    /\ GenInit
    /\ sel = <<>>
    /\ paths = {}
    /\ op = NoOp
    /\ WebInit
    /\ ps = NoPs

Next == GenNext

Spec == Init /\ [][Next]_vars

----------------------------------------------------------------------------
(* direct calls of download_and_store_video, on either back end *)

UrlArgs == {None, Some(<<>>), Some(VendorUrl), Some(MockUrlPrefix \o <<"m","o","c","k","_","1">> \o Mp4Ext)}
StoreTenantArgs == {<<"a">>, <<"a", "/", "b">>}
StoreCreativeArgs == {<<"c", "1">>, <<"b", "/", "c", "1">>}

\* await storage.download_and_store_video(url, tenant, creative, iteration)
DirectStore(b, u, t, c, it) ==
    /\ pc \in {"idle", "stored"}
    /\ ncalls < MaxStoreCalls
    /\ ncalls' = ncalls + 1
    /\ dl' = [NoDl EXCEPT !.backend = b, !.url = u, !.tenant = t,
                          !.creative = c, !.iteration = it]
    /\ pc' = "store"
    /\ UNCHANGED <<adapterImpl, bucket, clock, store, model, prompt,
                   tenant_name, creative_id, variations, provider, i, res,
                   results, response, attempted, sel, paths, ps, op, webVars>>

StoreInit ==
    /\ GenInit
    /\ adapterImpl = "placeholder"
    /\ sel = <<>>
    /\ paths = {}
    /\ op = NoOp
    /\ WebInit
    /\ ps = NoPs

StoreNext ==
    \/ \E b \in {"firebase", "s3"}, u \in UrlArgs, t \in StoreTenantArgs,
          c \in StoreCreativeArgs, it \in 1..2 : DirectStore(b, u, t, c, it)
    \/ StoreEnter
    \/ Download
    \/ Upload
    \/ Patch
    \/ MakeUrl
    \/ Tick

SpecStore == StoreInit /\ [][StoreNext]_vars

----------------------------------------------------------------------------
(* calls of _select_provider *)

SelectArgs == {Some(SupportedModels[k]) : k \in 1..Len(SupportedModels)} \cup
              {None, Some(""), Some("unknown_model"), Some("GOOGLE_VEO"),
               Some("mock"), Some("runway")}

\* service._select_provider(m); the last two calls are kept
SelectCall(m) ==
    /\ sel' = (IF Len(sel) < 2 THEN sel ELSE Tail(sel))
                 \o <<[arg |-> m, out |-> SelectProvider(m)]>>
    /\ UNCHANGED <<genVars, paths, ps, op, webVars>>

SelectInit ==
    /\ GenInit
    /\ adapterImpl = "placeholder"
    /\ bucket
    /\ sel = <<>>
    /\ paths = {}
    /\ op = NoOp
    /\ WebInit
    /\ ps = NoPs

SelectNext == \E m \in SelectArgs : SelectCall(m)

SpecSelect == SelectInit /\ [][SelectNext]_vars

----------------------------------------------------------------------------
(* calls of the path generators *)

MaxPaths == 2
MaxPathClock == 3600
\* the instants at which paths are generated: around a second, a minute and an
\* hour boundary
SampleTimes == {t \in {0, 1, 59, 60, 3600, 3601} : t <= MaxPathClock}
PathTenantArgs == {<<"a">>, <<"b">>, <<"a", "/", "b">>, <<>>}
PathCreativeArgs == {<<"c", "1">>, <<"b", "/", "c", "1">>}

\* storage._generate_firebase_path(...) / storage._generate_s3_key(...) at the
\* current time; the generated paths are kept
GeneratePath(b, t, c, it) ==
    /\ Cardinality(paths) < MaxPaths
    /\ paths' = paths \cup
         {[backend |-> b, tenant |-> t, creative |-> c, iteration |-> it,
           at |-> clock,
           path |-> IF b = "firebase" THEN GenerateFirebasePath(t, c, it, clock)
                    ELSE GenerateS3Key(t, c, it, clock)]}
    /\ UNCHANGED <<adapterImpl, bucket, clock, store, pc, model, prompt,
                   tenant_name, creative_id, variations, provider, i, res,
                   results, dl, response, attempted, ncalls, sel, ps, op, webVars>>

\* time passes up to a later instant
PathTick ==
    /\ \E t \in SampleTimes :
        /\ t > clock
        /\ clock' = t
    /\ UNCHANGED <<adapterImpl, bucket, store, pc, model, prompt, tenant_name,
                   creative_id, variations, provider, i, res, results, dl,
                   response, attempted, ncalls, sel, paths, ps, op, webVars>>

PathInit ==
    /\ GenInit
    /\ adapterImpl = "placeholder"
    /\ bucket
    /\ sel = <<>>
    /\ paths = {}
    /\ op = NoOp
    /\ WebInit
    /\ ps = NoPs

PathNext ==
    \/ \E b \in {"firebase", "s3"}, t \in PathTenantArgs, c \in PathCreativeArgs,
          it \in 1..2 : GeneratePath(b, t, c, it)
    \/ PathTick

SpecPath == PathInit /\ [][PathNext]_vars

----------------------------------------------------------------------------
(* calls of the storage operations on a store that holds earlier uploads *)

\* an object as download_and_store_video leaves it: uploaded and patched with
\* its metadata, or uploaded only when the patch failed
StoredObject(tenant, creative, iteration, now, patched) ==
    LET d == [NoDl EXCEPT !.url = Some(VendorUrl), !.tenant = tenant,
                          !.creative = creative, !.iteration = iteration]
    IN  [path |-> GenerateFirebasePath(tenant, creative, iteration, now),
         size |-> 1,
         metadata |-> IF patched THEN Some(Metadata(d, now)) ELSE None,
         public |-> FALSE]

SampleObjects ==
    {StoredObject(<<"a">>, <<"c", "1">>, 1, 0, TRUE),
     StoredObject(<<"a">>, <<"c", "1">>, 2, 0, FALSE),
     StoredObject(<<"b">>, <<"c", "1">>, 1, 0, TRUE),
     StoredObject(<<"a", "/", "b">>, <<"c", "1">>, 1, 0, TRUE)}

\* the paths the operations are called with: those of the objects and one
\* that was never written
OpPathArgs == {o.path : o \in SampleObjects} \cup
              {GenerateFirebasePath(<<"a">>, <<"c", "9">>, 1, 0)}
OpTenantArgs == {<<"a">>, <<"b">>, <<"z">>}
ExpirationArgs == {3600}

OpsInit ==
    /\ adapterImpl = "placeholder"
    /\ bucket \in BOOLEAN
    /\ clock = 0
    /\ store \in SUBSET SampleObjects
    /\ pc = "idle"
    /\ model = None
    /\ prompt = VideoPrompt(TxtAd)
    /\ tenant_name = <<>>
    /\ creative_id = <<>>
    /\ variations = 0
    /\ provider = None
    /\ i = 0
    /\ res = None
    /\ results = <<>>
    /\ dl = NoDl
    /\ response = None
    /\ attempted = <<>>
    /\ ncalls = 0
    /\ sel = <<>>
    /\ paths = {}
    /\ ps = NoPs
    /\ op = NoOp
    /\ WebInit

OpsNext ==
    \/ \E b \in {"firebase", "s3"}, path \in OpPathArgs, e \in ExpirationArgs,
          out \in StoreCallOutcomes : GenerateSignedUrl(b, path, e, out)
    \/ \E b \in {"firebase", "s3"}, path \in OpPathArgs, out \in StoreCallOutcomes :
          DeleteVideo(b, path, out)
    \/ \E b \in {"firebase", "s3"}, tenant \in OpTenantArgs, out \in StoreCallOutcomes :
          \E reload \in [{o.path : o \in store} -> StoreCallOutcomes] :
              ListTenantVideos(b, tenant, out, reload)
    \/ \E path \in OpPathArgs, out \in StoreCallOutcomes : GetVideoMetadata(path, out)

SpecOps == OpsInit /\ [][OpsNext]_vars

----------------------------------------------------------------------------
(* calls of the PromptRegenerator *)

PromptInit ==
    /\ GenInit
    /\ adapterImpl = "placeholder"
    /\ bucket
    /\ sel = <<>>
    /\ paths = {}
    /\ op = NoOp
    /\ WebInit
    /\ \E llm \in BOOLEAN : ps = [NoPs EXCEPT !.llm = llm]

PromptNext ==
    \/ \E u \in 1..Len(UserPromptArgs), c \in 1..Len(ContextArgs) :
          QuantifyCall(UserPromptArgs[u], ContextArgs[c])
    \/ \E r \in 1..Len(QuantifyResponses) : QuantifyResume(QuantifyResponses[r])
    \/ \E p \in 1..Len(PriorArgs), f \in 1..Len(FeedbackArgs) :
          RegenerateCall(PriorArgs[p], FeedbackArgs[f])
    \/ \E f \in 1..Len(FeedbackArgs) : RegenerateQuantified(FeedbackArgs[f])
    \/ RegenerateReturn

SpecPrompt == PromptInit /\ [][PromptNext]_vars

----------------------------------------------------------------------------
(* calls of MockProvider.generate *)

MockSeedArgs == {None, Some(0), Some(1), Some(2), Some(7), Some(-1)}

MockInit ==
    /\ GenInit
    /\ sel = <<>>
    /\ paths = {}
    /\ op = NoOp
    /\ WebInit
    /\ ps = NoPs

MockNext == \E s \in MockSeedArgs, r \in RandSeeds : MockCall(s, r)

SpecMock == MockInit /\ [][MockNext]_vars

----------------------------------------------------------------------------
(* requests handled by TenantMiddleware on one thread *)

TenantInit ==
    /\ GenInit
    /\ sel = <<>>
    /\ paths = {}
    /\ op = NoOp
    /\ WebInit
    /\ ps = NoPs

TenantNext ==
    \/ \E resolved \in TenantResolutions, requires_tenant \in BOOLEAN :
          ProcessRequest(resolved, requires_tenant)
    \/ \E raises \in BOOLEAN : View(raises)
    \/ ProcessException
    \/ ProcessResponse

SpecTenant == TenantInit /\ [][TenantNext]_vars

----------------------------------------------------------------------------
(* Properties *)

FailedDownloads == {"empty", "http_status", "transport"}

C3_AggregateSuccess ==
    pc = "returned" =>
        LET r == response[1]
        IN  /\ Len(r.results) = Len(attempted)
            /\ r.success <=> \A k \in 1..Len(attempted) : attempted[k].outcome = "ok"
            /\ \A k \in 1..Len(attempted) :
                  attempted[k].outcome = "ok" =>
                      /\ r.results[k].content_url = attempted[k].content_url
                      /\ r.results[k].content_url # None
                      /\ r.results[k].firebase_url = attempted[k].persisted

\* a returned call with a failed attempt and a persisted successful attempt
C3_Witness ==
    /\ pc = "returned"
    /\ ~response[1].success
    /\ \E k \in 1..Len(attempted) : attempted[k].outcome = "failed"
    /\ \E k \in 1..Len(attempted) :
          /\ attempted[k].outcome = "ok"
          /\ response[1].results[k].firebase_url # None

\* C4: _select_provider never throws; every name that is not a supported
\* identity (unknown, empty, None) gets the google_veo adapter, the same on
\* every call, and every supported identity gets the adapter bound to it.
C4_SelectTotal ==
    \A k \in 1..Len(sel) :
        /\ ~sel[k].out.raised
        /\ IF sel[k].arg # None /\ sel[k].arg[1] \in VideoModelValues
           THEN sel[k].out.provider = Some(Providers[sel[k].arg[1]])
           ELSE /\ sel[k].out.provider = Some("google_veo")
                /\ \A j \in 1..Len(sel) :
                      (sel[j].arg = None \/ sel[j].arg[1] \notin VideoModelValues)
                          => sel[j].out = sel[k].out

\* an unknown name, then None, have been selected
C4_Witness ==
    /\ Len(sel) = 2
    /\ sel[1].arg = Some("unknown_model")
    /\ sel[2].arg = None

\* C5: for tenants T1 # T2 the paths generated for the same creative id and
\* iteration differ, at any generation times, and every generated path has
\* the tenant as its second segment.
C5_TenantPathsDistinct ==
    /\ \A r1 \in paths, r2 \in paths :
          (r1.tenant # r2.tenant /\ r1.creative = r2.creative
              /\ r1.iteration = r2.iteration) => r1.path # r2.path
    /\ \A r \in paths :
          LET n == Len(VideoPrefix)
          IN  /\ Len(r.path) > n + Len(r.tenant) + 2
              /\ SubSeq(r.path, 1, n + 1) = VideoPrefix \o <<"/">>
              /\ SubSeq(r.path, n + 2, n + 1 + Len(r.tenant)) = r.tenant
              /\ r.path[n + 2 + Len(r.tenant)] = "/"

\* two paths for the same creative id and iteration, for a tenant and a tenant
\* it prefixes, generated at different times
C5_Witness ==
    \E r1 \in paths, r2 \in paths :
        /\ r1.tenant = <<"a">>
        /\ r2.tenant = <<"a", "/", "b">>
        /\ r1.creative = r2.creative
        /\ r1.iteration = r2.iteration
        /\ r1.at # r2.at

\* C6: when the download fails (transport error, HTTP error status) or yields
\* zero bytes, download_and_store_video returns None without proceeding to the
\* upload and without changing the store.
C6_FailedDownloadStoresNothing ==
    [][dl'.download \in FailedDownloads =>
          /\ dl'.ret = None
          /\ pc' \notin {"download", "upload", "patch", "url"}
          /\ store' = store]_vars

\* a direct call on the s3 back end has returned after an empty download
C6_Witness ==
    /\ pc = "stored"
    /\ dl.backend = "s3"
    /\ dl.download = "empty"
    /\ dl.ret = None

\* the fields of a VideoPrompt
PromptFields == {"prompt", "duration_seconds", "aspect_ratio", "resolution",
                 "fps", "style", "mood", "camera", "color_palette", "music",
                 "voiceover_script", "text_overlays", "subtitles",
                 "brand_colors", "seed"}

\* a regenerate_with_feedback call with a model has ended
RegenerateEnded ==
    /\ ps.op = "regenerate"
    /\ ps.llm
    /\ ps.pc \in {"done", "raised"}
    /\ ps.response # None
    /\ ps.response[1].kind = "json"
    /\ ps.response[1].value.t = "object"

\* C7: when the feedback response specifies only mood, every other field of
\* the spec regenerate_with_feedback returns (seed included) equals the prior
\* spec's value.
C7_OnlyMoodMergeLaw ==
    (RegenerateEnded /\ DOMAIN ps.response[1].value.v = {"mood"}) =>
        /\ ps.pc = "done"
        /\ \A f \in PromptFields \ {"mood"} : ps.result[1][f] = ps.prior[1][f]

\* C8: a spec serialised as regenerate_with_feedback sends it and parsed back
\* by the model-response path equals the original in every field, seed
\* included.
C8_RoundTrip ==
    (/\ RegenerateEnded
     /\ DOMAIN ps.response[1].value.v = PromptFields
     /\ ps.response[1].value = ToJson(ps.prior[1])) =>
        /\ ps.pc = "done"
        /\ \A f \in PromptFields : ps.result[1][f] = ps.prior[1][f]

\* C9: when a model is configured and its output failed to parse, quantify
\* ends by returning the heuristic spec, the one returned without a model.
C9_ParseFailureGivesHeuristic ==
    (/\ ps.op = "quantify"
     /\ ps.llm
     /\ ps.parse_failed
     /\ ps.pc \in {"done", "raised"}) =>
        /\ ps.pc = "done"
        /\ ps.result = Some(Heuristic(ps.user_prompt, ps.context))

\* C10: quantify never raises, whatever the model returns.
C10_QuantifyNeverRaises ==
    ps.op = "quantify" => ps.pc # "raised"

\* C11: a quantify request with an empty user prompt fails validation before
\* any outbound call: it ends raised, and no model call, no adapter call and no
\* download has been made.
C11_EmptyPromptRejected ==
    (ps.op = "quantify" /\ ps.user_prompt = <<>>) =>
        /\ ps.pc = "raised"
        /\ ps.llm_calls = 0
        /\ attempted = <<>>
        /\ dl = NoDl

\* C12: a call of generate with variation_count < 1 is rejected and never
\* returns an aggregate result.
C12_VariationCountValidated ==
    pc = "returned" => variations >= 1

\* "duration_seconds must be an integer (5-60)"
DurationSecondsLow == 5
DurationSecondsHigh == 60

\* C13: every spec returned by quantify or by regenerate_with_feedback has a
\* duration within 5..60 seconds, whatever duration_seconds the model gave.
C13_DurationWithinBound ==
    (ps.pc = "done" /\ ps.result # None) =>
        ps.result[1].duration_seconds \in DurationSecondsLow..DurationSecondsHigh

\* the positions of download_and_store_video
StoreStages == {"store", "download", "upload", "patch", "url"}

\* C14: when persistence of a successful attempt fails with a storage error
\* (bucket missing, or the upload, the metadata write or the URL generation
\* is refused), the attempt's entry has a null persisted URL and its remote
\* locator, the attempt still counts as successful, and generate goes on to
\* the next variation.
C14_StorageErrorDegrades ==
    [][(/\ dl.caller = "generate"
        /\ (pc = "store" /\ ~bucket) \/ pc \in {"upload", "patch", "url"}
        /\ pc' \notin StoreStages
        /\ dl'.ret = None) =>
          /\ pc' = "loop"
          /\ i' = i + 1
          /\ Len(results') = Len(results) + 1
          /\ SubSeq(results', 1, Len(results)) = results
          /\ results'[Len(results')].success
          /\ results'[Len(results')].firebase_url = None
          /\ results'[Len(results')].content_url = dl.url
          /\ results'[Len(results')].content_url # None]_vars

\* generate returned two successful attempts with real locators while the
\* bucket is missing: both entries kept the locator and have no persisted URL
C14_Witness ==
    /\ pc = "returned"
    /\ variations = 2
    /\ ~bucket
    /\ adapterImpl = "vendor"
    /\ response[1].success
    /\ \A k \in 1..2 :
          /\ attempted[k].store_called
          /\ response[1].results[k].firebase_url = None
          /\ response[1].results[k].content_url = Some(VendorUrl)

\* C15: after a successful download and upload the public URL is tried first;
\* a signed URL, expiring after 365 days, is generated only when making the
\* object public was refused, and a refusal alone never makes
\* download_and_store_video return None: it returns the signed URL whenever
\* signing succeeds.
C15_SignedUrlFallback ==
    /\ dl.make_public # "none" =>
          /\ dl.backend = "firebase"
          /\ dl.download = "ok"
          /\ \E o \in store : o.path = dl.path[1] /\ o.metadata # None
    /\ dl.make_public = "ok" =>
          /\ dl.signing = "none"
          /\ dl.ret # None
          /\ dl.ret[1].kind = "public"
          /\ dl.ret[1].path = dl.path[1]
    /\ dl.signing # "none" => dl.make_public = "refused"
    /\ (dl.ret # None /\ dl.ret[1].kind = "signed") =>
          /\ dl.make_public = "refused"
          /\ dl.ret[1].expires = Some(365)
    /\ (dl.make_public = "refused" /\ dl.signing = "ok") =>
          /\ dl.ret # None
          /\ dl.ret[1].kind = "signed"
          /\ dl.ret[1].path = dl.path[1]
    /\ (dl.make_public = "refused" /\ dl.ret = None) => dl.signing = "failed"

\* a direct call returned a signed URL after make_public was refused
C15_Witness ==
    /\ pc = "stored"
    /\ dl.make_public = "refused"
    /\ dl.signing = "ok"
    /\ dl.ret # None
    /\ dl.ret[1].kind = "signed"

\* C16: generate_signed_url, delete_video, list_tenant_videos and
\* get_video_metadata never let an exception reach the caller; when the store
\* is unavailable or the store call fails they return null, false, the empty
\* list and null.
C16_StorageOpsNeverRaise ==
    /\ ~op.raised
    /\ (op.name # "none" /\ (~bucket \/ op.outcome # "ok")) =>
          op.ret = CASE op.name = "generate_signed_url" -> "null"
                     [] op.name = "delete_video" -> "false"
                     [] op.name = "list_tenant_videos" -> "list"
                     [] op.name = "get_video_metadata" -> "null"
    /\ (op.name = "list_tenant_videos" /\ (~bucket \/ op.outcome # "ok")) =>
          op.value = {}

\* text ends with suffix
HasSuffix(text, suffix) ==
    /\ Len(text) >= Len(suffix)
    /\ SubSeq(text, Len(text) - Len(suffix) + 1, Len(text)) = suffix

\* the end of a storage path for iteration k: -00k.mp4
IterationSuffix(k) == <<"-">> \o Format03d(k) \o Mp4Ext

\* C17: within one call of generate the iteration indices of the attempts are
\* 1, 2, ... in attempt order, all of 1..N once the call has returned, and
\* every asset the call persists carries the index of its attempt, in its
\* path and in its metadata, no two attempts sharing a path.
C17_IterationIndices ==
    /\ \A k \in 1..Len(attempted) :
          /\ attempted[k].iteration = k
          /\ k <= variations
          /\ attempted[k].persisted # None =>
                HasSuffix(attempted[k].persisted[1].path, IterationSuffix(k))
    /\ pc = "returned" => Len(attempted) = (IF variations > 0 THEN variations ELSE 0)
    /\ \A j \in 1..Len(attempted), k \in 1..Len(attempted) :
          (j # k /\ attempted[j].persisted # None /\ attempted[k].persisted # None)
              => attempted[j].persisted[1].path # attempted[k].persisted[1].path
    /\ \A o \in store :
          \E k \in 1..Len(attempted) :
              /\ HasSuffix(o.path, IterationSuffix(k))
              /\ o.metadata # None => o.metadata[1].iteration = IntToStr(k)

\* a call of two variations returned with both assets persisted
C17_Witness ==
    /\ pc = "returned"
    /\ variations = 2
    /\ Cardinality(store) = 2
    /\ \A k \in 1..2 : attempted[k].persisted # None

\* a call generate("unknown_model", ..., variations = 2) on the registered
\* adapters has returned
UnknownBackendReturned ==
    /\ pc = "returned"
    /\ model = Some("unknown_model")
    /\ variations = 2
    /\ adapterImpl = "placeholder"

C19_HeuristicDefaults ==
    (ps.op = "quantify" /\ ~ps.llm /\ ps.pc = "done") =>
        LET r == ps.result[1]
        IN  /\ r.prompt = ps.user_prompt
            /\ IF Contains(Lower(ps.context), TxtTiktok)
               THEN r.aspect_ratio = Txt9x16
               ELSE /\ r.duration_seconds = 10
                    /\ r.aspect_ratio = Txt16x9
                    /\ r.resolution = Txt1080p
                    /\ r.fps = 24
                    /\ r.style = TxtCinematic
                    /\ r.mood = TxtUplifting
                    /\ r.camera = TxtDollyIn
                    /\ r.subtitles = FALSE

\* C20: with no model configured regenerate_with_feedback returns the prior
\* spec with at most mood (only when the feedback mentions energy) and style
\* (only when it mentions social) changed; every other field, seed included,
\* is the prior's, and with neither keyword the result is the prior spec.
C20_NoModelRegenerateKeepsPrior ==
    (ps.op = "regenerate" /\ ~ps.llm /\ ps.pc = "done") =>
        LET r == ps.result[1]
            p == ps.prior[1]
            energy == Contains(Lower(ps.feedback), TxtEnergy)
            social == Contains(Lower(ps.feedback), TxtSocial)
        IN  /\ \A f \in PromptFields \ {"mood", "style"} : r[f] = p[f]
            /\ r.mood # p.mood => energy
            /\ r.style # p.style => social
            /\ energy => r.mood = TxtEnergetic
            /\ (~energy /\ ~social) => r = p

\* a spec with a pinned seed was regenerated without a model on feedback that
\* mentions energy, and its mood changed
C20_Witness ==
    /\ ps.op = "regenerate"
    /\ ~ps.llm
    /\ ps.pc = "done"
    /\ ps.prior[1].seed = Some(7)
    /\ Contains(Lower(ps.feedback), TxtEnergy)
    /\ ps.result[1].mood # ps.prior[1].mood
    /\ ps.result[1].seed = Some(7)

\* the locator MockProvider derives from the seed s
MockLocator(s) == MockUrlPrefix \o <<"m", "o", "c", "k", "_">> \o IntToStr(s) \o Mp4Ext

\* C21: the mock adapter is deterministic in the pinned seed: any two
\* MockProvider.generate calls whose spec carries the same integer seed s
\* (0 included) return the same remote locator, and that locator is the one
\* derived from s.
C21_MockDeterministicInSeed ==
    \A j \in 1..Len(mock), k \in 1..Len(mock) :
        (mock[j].seed # None /\ mock[j].seed = mock[k].seed)
            => /\ mock[j].result.content_url = mock[k].result.content_url
               /\ mock[j].result.content_url = Some(MockLocator(mock[j].seed[1]))

C23_ReportedBackendSupported ==
    (pc = "returned" /\ variations >= 1) =>
        \E k \in 1..Len(response[1].supported_models) :
            response[1].provider = response[1].supported_models[k]

MetadataKeys == {"tenant", "creative_id", "iteration", "original_url", "uploaded_at"}

\* C25: in every reachable state, every object download_and_store_video has
\* written to the durable store carries the metadata keys tenant, creative
\* id, iteration, original locator and upload timestamp, also between the
\* upload step and the metadata patch step and when the patch step fails.
C25_StoredObjectsCarryMetadata ==
    \A o \in store :
        /\ o.metadata # None
        /\ DOMAIN o.metadata[1] = MetadataKeys

\* the upload step of the call in progress has just written its object
Uploaded ==
    /\ pc = "upload"
    /\ \/ pc' = "patch"
       \/ dl.backend = "s3" /\ dl'.ret # None

\* C26: a persisted asset is created once and never overwritten: every
\* upload of download_and_store_video writes to a storage path no earlier
\* call has written, also for calls with the same tenant, creative id and
\* iteration within the same clock second.
C26_NeverOverwritten ==
    [][Uploaded => \A o \in store : o.path # dl.path[1]]_vars

\* C27: whenever download_and_store_video returns null, the durable store
\* contains no object written by that call, also when the failure comes
\* after the upload step.
C27_NullReturnLeavesNoObject ==
    (pc = "stored" /\ dl.ret = None /\ dl.path # None) =>
        \A o \in store : o.path # dl.path[1]

C29_ListingTenantIsolated ==
    (op.name = "list_tenant_videos" /\ op.ret = "list") =>
        \A e \in op.value : \A o \in store :
            (o.path = e.path /\ o.metadata # None)
                => o.metadata[1].tenant = op.arg

\* C30: after TenantMiddleware has finished handling a request (normal
\* response, the 404 or 500 response short-circuited from process_request,
\* or an exception raised by the view), the handling thread's tenant
\* database context is cleared; over any sequence of requests on one thread
\* a request that resolves to no tenant never has its tenant-scoped reads or
\* writes routed to the database of an earlier request's tenant.
C30_TenantContextCleared ==
    /\ request.pc = "done" => tenant_db = None
    /\ (request.tenant = None /\ request.routed # None) =>
          /\ request.routed = Some(DefaultDb)
          /\ request.routed[1] \notin request.earlier

C30_Witness ==
    /\ request.pc = "done"
    /\ request.earlier # {}
    /\ request.tenant = None
    /\ request.routed = Some(DefaultDb)
    /\ tenant_db = None
====
